---- MODULE Spec2Model ----
(***************************************************************************)
(* Model of server/weather-risk.py: the WeatherRiskCalculator class and    *)
(* main().                                                                 *)
(*                                                                         *)
(* Python floats are modelled as exact rationals [n |-> numerator,         *)
(* d |-> denominator] in lowest terms with d > 0, so that the scoring      *)
(* formula, the threshold comparisons and round(x, 2) are computed, not    *)
(* assumed.  Binary floating-point representation error, NaN and           *)
(* infinities are outside the model.                                       *)
(***************************************************************************)
EXTENDS Integers, Sequences, FiniteSets, TLC

VARIABLES
    \* ---- scoring harness (SpecScore): calls of the pure functions ----
    sc_pc,        \* "input" | "scored" | "perturbed" | "reassessed" | "classified"
    sc_weather,   \* WeatherData passed to calculate_risk_score
    sc_asset,     \* AssetLocation passed to calculate_risk_score
    sc_score,     \* its result
    sc_field,     \* the one field changed in the second reading ("" if none yet)
    sc_weather2,  \* the second reading
    sc_score2,    \* calculate_risk_score(sc_weather2, sc_asset)
    sc_asset2,    \* a second asset
    sc_score3,    \* calculate_risk_score(sc_weather, sc_asset2)
    cls_in,       \* argument of get_risk_level
    cls_out,      \* its result
    \* ---- a run of main() (Spec) ----
    pc,           \* position of the run
    env_key,      \* os.getenv('TOMORROW_IO_API_KEY'); NoKey when unset
    api_key,      \* self.api_key
    assets,       \* self.assets
    idx,          \* position of the for loop of assess_all_assets (1-based)
    assessments,  \* the list built by assess_all_assets
    fetchLog,     \* history: asset positions for which a request was issued
    responses,    \* history: what the provider did with each request
    geojson_data, \* the document built by generate_geojson
    file0,        \* the output file before the run
    file,         \* the output file now
    printed,      \* history: lines printed
    error,        \* the exception travelling to main's handler, or NoError
    \* ---- a call of generate_geojson on a given list (SpecGeo) ----
    geo_pc,       \* "idle" | "input" | "generated"
    geo_in,       \* the list of assessments passed
    geo_out,      \* the document returned
    \* ---- a call of generate_forecast_animation_data (SpecAnim) ----
    an_pc,           \* "idle" | "for" | "returned" | "raised"
    an_idx,          \* position of the first for loop (1-based)
    asset_forecasts, \* the dict, as its (name, forecast) items in insertion order
    animation_data,  \* the document being built
    an_error         \* the exception that left the call, or NoError

scoreVars == <<sc_pc, sc_weather, sc_asset, sc_score, sc_field, sc_weather2,
               sc_score2, sc_asset2, sc_score3, cls_in, cls_out>>

mainVars == <<pc, env_key, api_key, assets, idx, assessments, fetchLog,
              responses, geojson_data, file0, file, printed, error>>

geoVars == <<geo_pc, geo_in, geo_out>>

animVars == <<an_pc, an_idx, asset_forecasts, animation_data, an_error>>

vars == <<scoreVars, mainVars, geoVars, animVars>>

notScore == <<mainVars, geoVars, animVars>>
notMain  == <<scoreVars, geoVars, animVars>>
notGeo   == <<scoreVars, mainVars, animVars>>
notAnim  == <<scoreVars, mainVars, geoVars>>

-----------------------------------------------------------------------------
(* Exact rational arithmetic standing for Python float arithmetic.         *)

Abs(x) == IF x < 0 THEN -x ELSE x

RECURSIVE Gcd(_, _)
Gcd(a, b) == IF b = 0 THEN a ELSE Gcd(b, a % b)

\* the rational n/d (d > 0) in lowest terms
R(n, d) ==
    LET g == Gcd(Abs(n), d)
    IN  [n |-> n \div g, d |-> d \div g]

RInt(k) == [n |-> k, d |-> 1]

\* no number (None)
NoValue == [n |-> 0, d |-> 0]

RMul(a, b) ==
    LET g1 == Gcd(Abs(a.n), b.d)
        g2 == Gcd(Abs(b.n), a.d)
    IN  R((a.n \div g1) * (b.n \div g2), (a.d \div g2) * (b.d \div g1))

\* a / k for an integer k > 0
RDivInt(a, k) == RMul(a, [n |-> 1, d |-> k])

RSub(a, b) == R(a.n * b.d - b.n * a.d, a.d * b.d)

\* a < b, by integer parts first and then on the reciprocals of the
\* fractional parts, so that no product of two denominators is formed
RECURSIVE RLess(_, _)
RLess(a, b) ==
    LET qa == a.n \div a.d
        qb == b.n \div b.d
        ra == a.n % a.d
        rb == b.n % b.d
    IN  IF qa # qb THEN qa < qb
        ELSE IF rb = 0 THEN FALSE
        ELSE IF ra = 0 THEN TRUE
        ELSE RLess([n |-> b.d, d |-> rb], [n |-> a.d, d |-> ra])

RLeq(a, b) == ~RLess(b, a)

\* Python max(a, b) and min(a, b): the first argument unless the second is
\* strictly greater (smaller)
PyMax(a, b) == IF RLess(a, b) THEN b ELSE a
PyMin(a, b) == IF RLess(b, a) THEN b ELSE a

\* x to the nearest multiple of 1/m, ties to even: round(x, 2) for m = 100,
\* the format :.1f for m = 10
RoundTo(x, m) ==
    LET q   == x.n \div x.d
        r   == x.n % x.d
        h   == (m * r) \div x.d
        rem == (m * r) % x.d
        k   == m * q + h
    IN  IF 2 * rem > x.d \/ (2 * rem = x.d /\ k % 2 = 1)
        THEN R(k + 1, m)
        ELSE R(k, m)

Round2(x) == RoundTo(x, 100)

-----------------------------------------------------------------------------
(* Data classes.                                                           *)

AssetLocation(name, lat, lon, asset_type, insured_value) ==
    [name |-> name, lat |-> lat, lon |-> lon,
     asset_type |-> asset_type, insured_value |-> insured_value]

WeatherData(fire_index, wind_speed, temperature, humidity, precipitation) ==
    [fire_index |-> fire_index, wind_speed |-> wind_speed,
     temperature |-> temperature, humidity |-> humidity,
     precipitation |-> precipitation]

RiskAssessment(asset, weather, risk_score, risk_level) ==
    [asset |-> asset, weather |-> weather,
     risk_score |-> risk_score, risk_level |-> risk_level]

WeatherFields ==
    {"fire_index", "wind_speed", "temperature", "humidity", "precipitation"}

-----------------------------------------------------------------------------
(* The scoring engine.                                                     *)

fire_wind_risk(weather) ==
    RMul(weather.fire_index, RDivInt(weather.wind_speed, 10))

temp_factor(weather) == PyMax(RInt(1), RDivInt(weather.temperature, 25))

\* looks at humidity itself instead of the dryness 100 - humidity
humidity_factor_of_humidity(weather) ==
    PyMax(RInt(1), RDivInt(weather.humidity, 50))

humidity_factor(weather) ==
    PyMax(RInt(1), RDivInt(RSub(RInt(100), weather.humidity), 50))

precip_factor(weather) ==
    PyMax(R(1, 10), RSub(RInt(1), RDivInt(weather.precipitation, 5)))

asset_multipliers ==
    [commercial |-> RInt(1),
     critical_infrastructure |-> R(3, 2),
     hospitality |-> R(6, 5),
     industrial |-> R(13, 10),
     logistics |-> R(9, 10)]

\* weighs large insured values more
asset_factor_by_value(asset) ==
    IF RLess(RInt(5000000), asset.insured_value)
    THEN R(3, 2)
    ELSE IF asset.asset_type \in DOMAIN asset_multipliers
         THEN asset_multipliers[asset.asset_type]
         ELSE RInt(1)

\* asset_multipliers.get(asset.asset_type, 1.0)
asset_factor(asset) ==
    IF asset.asset_type \in DOMAIN asset_multipliers
    THEN asset_multipliers[asset.asset_type]
    ELSE RInt(1)

raw_risk_score(weather, asset) ==
    RMul(RMul(RMul(RMul(fire_wind_risk(weather), temp_factor(weather)),
                   humidity_factor(weather)),
              precip_factor(weather)),
         asset_factor(asset))

\* caps at 100 only
clamp_score_upper_only(risk_score) == PyMin(RInt(100), risk_score)

\* min(100.0, max(0.0, risk_score))
clamp_score(risk_score) == PyMin(RInt(100), PyMax(RInt(0), risk_score))

calculate_risk_score(weather, asset) ==
    clamp_score(raw_risk_score(weather, asset))

\* thresholds taken as inclusive upper ends
get_risk_level_inclusive(risk_score) ==
    IF RLeq(risk_score, RInt(25)) THEN "low"
    ELSE IF RLeq(risk_score, RInt(60)) THEN "medium"
    ELSE "high"

get_risk_level(risk_score) ==
    IF RLess(risk_score, RInt(25)) THEN "low"
    ELSE IF RLess(risk_score, RInt(60)) THEN "medium"
    ELSE "high"

-----------------------------------------------------------------------------
(* The configured portfolio (WeatherRiskCalculator.__init__).              *)

ConfiguredAssets ==
    << AssetLocation("Los Angeles Office Complex", R(340522, 10000),
                     R(-1182437, 10000), "commercial", RInt(5000000)),
       AssetLocation("San Francisco Data Center", R(377749, 10000),
                     R(-1224194, 10000), "critical_infrastructure",
                     RInt(10000000)),
       AssetLocation("Las Vegas Casino Resort", R(361699, 10000),
                     R(-1151398, 10000), "hospitality", RInt(15000000)),
       AssetLocation("Phoenix Manufacturing Plant", R(334484, 10000),
                     R(-1120740, 10000), "industrial", RInt(8000000)),
       AssetLocation("Sacramento Distribution Center", R(385816, 10000),
                     R(-1214944, 10000), "logistics", RInt(3000000)) >>

\* AssetLocation(name, lat, lon) with the dataclass defaults
DefaultedAsset(name, lat, lon) ==
    AssetLocation(name, lat, lon, "property", RInt(1000000))

-----------------------------------------------------------------------------
(* The weather provider: fetch_weather_data.                               *)

NoKey == "None"
NoError == "none"

\* values.get(key, default) on the "values" object of a response body
Get(values, key, default) ==
    IF key \in DOMAIN values THEN values[key] ELSE default

\* the WeatherData built from a 2xx response whose body has data.values
WeatherFromValues(values) ==
    WeatherData(Get(values, "fireIndex", RInt(0)),
                Get(values, "windSpeed", RInt(0)),
                Get(values, "temperature", RInt(0)),
                Get(values, "humidity", RInt(0)),
                Get(values, "precipitationIntensity", RInt(0)))

\* the default values returned on API failure
FallbackWeather == WeatherData(RInt(1), RInt(5), RInt(20), RInt(50), RInt(0))

\* exceptions of requests.get, raise_for_status and response.json: all are
\* requests.exceptions.RequestException
RequestExceptions == {"ConnectionError", "HTTPError", "JSONDecodeError"}

\* exceptions of data["data"]["values"] on a 2xx body that decodes as JSON
\* but has no such member (KeyError) or is no object (TypeError)
BodyExceptions == {"KeyError", "TypeError"}

\* what "except requests.exceptions.RequestException" catches
CaughtByFetch(exc) == exc \in RequestExceptions

\* "values" objects of 2xx responses
ApiValueInputs ==
    { [fireIndex |-> R(4166, 1000), windSpeed |-> RInt(60),
       temperature |-> RInt(20), humidity |-> RInt(50),
       precipitationIntensity |-> RInt(0)],
      [fireIndex |-> RInt(40), windSpeed |-> R(30125, 1000),
       temperature |-> RInt(30), humidity |-> RInt(20),
       precipitationIntensity |-> RInt(0)],
      [windSpeed |-> RInt(12), temperature |-> R(21456, 1000)] }

-----------------------------------------------------------------------------
(* The orchestrator and the output sink.                                   *)

\* classifies the score as it will be displayed, rounded
AssessOneRounded(asset, weather) ==
    LET risk_score == calculate_risk_score(weather, asset)
        risk_level == get_risk_level(Round2(risk_score))
    IN  RiskAssessment(asset, weather, risk_score, risk_level)

\* the body of the for loop of assess_all_assets after the fetch
AssessOne(asset, weather) ==
    LET risk_score == calculate_risk_score(weather, asset)
        risk_level == get_risk_level(risk_score)
    IN  RiskAssessment(asset, weather, risk_score, risk_level)

\* coordinates in [lat, lon] order
FeatureLatLon(assessment) ==
    [type |-> "Feature",
     geometry |-> [type |-> "Point",
                   coordinates |-> <<assessment.asset.lat,
                                     assessment.asset.lon>>],
     properties |->
        [name |-> assessment.asset.name,
         asset_type |-> assessment.asset.asset_type,
         insured_value |-> assessment.asset.insured_value,
         fire_index |-> Round2(assessment.weather.fire_index),
         wind_speed |-> Round2(assessment.weather.wind_speed),
         temperature |-> Round2(assessment.weather.temperature),
         humidity |-> Round2(assessment.weather.humidity),
         precipitation |-> Round2(assessment.weather.precipitation),
         risk_score |-> Round2(assessment.risk_score),
         risk_level |-> assessment.risk_level]]

Feature(assessment) ==
    [type |-> "Feature",
     geometry |-> [type |-> "Point",
                   coordinates |-> <<assessment.asset.lon,
                                     assessment.asset.lat>>],
     properties |->
        [name |-> assessment.asset.name,
         asset_type |-> assessment.asset.asset_type,
         insured_value |-> assessment.asset.insured_value,
         fire_index |-> Round2(assessment.weather.fire_index),
         wind_speed |-> Round2(assessment.weather.wind_speed),
         temperature |-> Round2(assessment.weather.temperature),
         humidity |-> Round2(assessment.weather.humidity),
         precipitation |-> Round2(assessment.weather.precipitation),
         risk_score |-> Round2(assessment.risk_score),
         risk_level |-> assessment.risk_level]]

generate_geojson(list) ==
    LET features == [i \in 1..Len(list) |-> Feature(list[i])]
    IN  [type |-> "FeatureCollection",
         features |-> features,
         metadata |-> [generated_at |-> "2025-01-31T20:42:00Z",
                       total_assets |-> Len(features),
                       data_source |-> "Tomorrow.io Weather API"]]

NoDocument == [type |-> "none", features |-> <<>>,
               metadata |-> [generated_at |-> "", total_assets |-> 0,
                             data_source |-> ""]]

\* states of the output file: not there, left by an earlier run, opened for
\* writing and empty or partly written, or holding a complete document
FileAbsent    == [state |-> "absent", content |-> NoDocument]
FileStale     == [state |-> "stale", content |-> NoDocument]
FileTruncated == [state |-> "truncated", content |-> NoDocument]
FileWritten(doc) == [state |-> "written", content |-> doc]

-----------------------------------------------------------------------------
(* A run of main(): calculator = WeatherRiskCalculator();                  *)
(* calculator.save_risk_data(), inside try/except Exception.               *)

Line(text, name, score, level) ==
    [text |-> text, name |-> name, score |-> score, level |-> level]

Say(text) == Line(text, "", NoValue, "")

\* self.api_key = api_key or os.getenv('TOMORROW_IO_API_KEY')
ChooseKey(arg, env) == IF arg \in {NoKey, ""} THEN env ELSE arg

\* not self.api_key
Falsy(key) == key \in {NoKey, ""}

EnvInputs == {NoKey, "", "tio-key"}

IdleMain ==
    /\ pc = "idle"
    /\ env_key = NoKey
    /\ api_key = NoKey
    /\ assets = <<>>
    /\ idx = 0
    /\ assessments = <<>>
    /\ fetchLog = <<>>
    /\ responses = <<>>
    /\ geojson_data = NoDocument
    /\ file0 = FileAbsent
    /\ file = FileAbsent
    /\ printed = <<>>
    /\ error = NoError

InitMain ==
    /\ pc = "main"
    /\ env_key \in EnvInputs
    /\ api_key = NoKey
    /\ assets = <<>>
    /\ idx = 0
    /\ assessments = <<>>
    /\ fetchLog = <<>>
    /\ responses = <<>>
    /\ geojson_data = NoDocument
    /\ file0 \in {FileAbsent, FileStale}
    /\ file = file0
    /\ printed = <<>>
    /\ error = NoError

\* WeatherRiskCalculator(), the key found
Construct ==
    /\ pc = "main"
    /\ ~Falsy(ChooseKey(NoKey, env_key))
    /\ api_key' = ChooseKey(NoKey, env_key)
    /\ assets' = ConfiguredAssets
    /\ pc' = "save_risk_data"
    /\ UNCHANGED <<env_key, idx, assessments, fetchLog, responses,
                   geojson_data, file0, file, printed, error>>
    /\ UNCHANGED notMain

\* WeatherRiskCalculator(), raise ValueError
ConstructRaises ==
    /\ pc = "main"
    /\ Falsy(ChooseKey(NoKey, env_key))
    /\ error' = "ValueError"
    /\ pc' = "except"
    /\ UNCHANGED <<env_key, api_key, assets, idx, assessments, fetchLog,
                   responses, geojson_data, file0, file, printed>>
    /\ UNCHANGED notMain

\* save_risk_data up to the first iteration of assess_all_assets
StartSave ==
    /\ pc = "save_risk_data"
    /\ printed' = Append(printed, Say("Starting weather risk assessment..."))
    /\ assessments' = <<>>
    /\ idx' = 1
    /\ pc' = "for"
    /\ UNCHANGED <<env_key, api_key, assets, fetchLog, responses,
                   geojson_data, file0, file, error>>
    /\ UNCHANGED notMain

\* for asset in self.assets: ... requests.get(url, params, timeout=10)
IssueFetch ==
    /\ pc = "for"
    /\ idx <= Len(assets)
    /\ printed' = Append(printed,
                         Line("Assessing risk for", assets[idx].name,
                              NoValue, ""))
    /\ fetchLog' = Append(fetchLog, idx)
    /\ pc' = "fetch"
    /\ UNCHANGED <<env_key, api_key, assets, idx, assessments, responses,
                   geojson_data, file0, file, error>>
    /\ UNCHANGED notMain

\* a 2xx response with data.values; the rest of the loop body
FetchReturns ==
    /\ pc = "fetch"
    /\ \E values \in ApiValueInputs :
          /\ responses' = Append(responses,
                                 [kind |-> "ok", values |-> values])
          /\ assessments' =
                Append(assessments,
                       AssessOne(assets[idx], WeatherFromValues(values)))
    /\ idx' = idx + 1
    /\ pc' = "for"
    /\ UNCHANGED <<env_key, api_key, assets, fetchLog, geojson_data, file0,
                   file, printed, error>>
    /\ UNCHANGED notMain

\* an exception inside the try block of fetch_weather_data
FetchRaises ==
    /\ pc = "fetch"
    /\ \E exc \in RequestExceptions \cup BodyExceptions :
          /\ responses' = Append(responses, [kind |-> exc, values |-> <<>>])
          /\ IF CaughtByFetch(exc)
             THEN /\ printed' = Append(printed,
                                       Line("Error fetching weather data for",
                                            assets[idx].name, NoValue, ""))
                  /\ assessments' =
                        Append(assessments,
                               AssessOne(assets[idx], FallbackWeather))
                  /\ idx' = idx + 1
                  /\ pc' = "for"
                  /\ UNCHANGED error
             ELSE /\ error' = exc
                  /\ pc' = "except"
                  /\ UNCHANGED <<printed, assessments, idx>>
    /\ UNCHANGED <<env_key, api_key, assets, fetchLog, geojson_data, file0,
                   file>>
    /\ UNCHANGED notMain

\* return assessments; geojson_data = self.generate_geojson(assessments)
ReturnAssessments ==
    /\ pc = "for"
    /\ idx > Len(assets)
    /\ geojson_data' = generate_geojson(assessments)
    /\ pc' = "makedirs"
    /\ UNCHANGED <<env_key, api_key, assets, idx, assessments, fetchLog,
                   responses, file0, file, printed, error>>
    /\ UNCHANGED notMain

\* os.makedirs(os.path.dirname(output_path), exist_ok=True)
Makedirs ==
    /\ pc = "makedirs"
    /\ \E ok \in BOOLEAN :
          IF ok THEN pc' = "open" /\ UNCHANGED error
                ELSE pc' = "except" /\ error' = "OSError"
    /\ UNCHANGED <<env_key, api_key, assets, idx, assessments, fetchLog,
                   responses, geojson_data, file0, file, printed>>
    /\ UNCHANGED notMain

\* open(output_path, 'w'): creates the file or truncates it
Open ==
    /\ pc = "open"
    /\ \E ok \in BOOLEAN :
          IF ok THEN pc' = "dump" /\ file' = FileTruncated /\ UNCHANGED error
                ELSE pc' = "except" /\ error' = "OSError" /\ UNCHANGED file
    /\ UNCHANGED <<env_key, api_key, assets, idx, assessments, fetchLog,
                   responses, geojson_data, file0, printed>>
    /\ UNCHANGED notMain

\* json.dump(geojson_data, f, indent=2) and the end of the with block
Dump ==
    /\ pc = "dump"
    /\ \E ok \in BOOLEAN :
          IF ok THEN /\ pc' = "summary"
                     /\ file' = FileWritten(geojson_data)
                     /\ UNCHANGED error
                ELSE /\ pc' = "except"
                     /\ error' = "OSError"
                     /\ UNCHANGED file
    /\ UNCHANGED <<env_key, api_key, assets, idx, assessments, fetchLog,
                   responses, geojson_data, file0, printed>>
    /\ UNCHANGED notMain

\* the prints that end save_risk_data
Summary ==
    /\ pc = "summary"
    /\ printed' =
          printed \o <<Say("Risk data saved to"), Say("Assessed assets")>>
          \o [i \in 1..Len(assessments) |->
                Line("Risk Score", assessments[i].asset.name,
                     RoundTo(assessments[i].risk_score, 10),
                     assessments[i].risk_level)]
    /\ pc' = "done"
    /\ UNCHANGED <<env_key, api_key, assets, idx, assessments, fetchLog,
                   responses, geojson_data, file0, file, error>>
    /\ UNCHANGED notMain

\* except Exception as e: print(f"Error: {e}"); print("Make sure ...")
MainExcept ==
    /\ pc = "except"
    /\ printed' = printed \o <<Line("Error:", error, NoValue, ""),
                               Say("Make sure to set the TOMORROW_IO_API_KEY environment variable")>>
    /\ pc' = "done"
    /\ UNCHANGED <<env_key, api_key, assets, idx, assessments, fetchLog,
                   responses, geojson_data, file0, file, error>>
    /\ UNCHANGED notMain

\* the scoring harness at rest
IdleScore ==
    /\ sc_pc = "idle"
    /\ sc_weather = FallbackWeather
    /\ sc_asset = ConfiguredAssets[1]
    /\ sc_score = NoValue
    /\ sc_field = ""
    /\ sc_weather2 = FallbackWeather
    /\ sc_score2 = NoValue
    /\ sc_asset2 = ConfiguredAssets[1]
    /\ sc_score3 = NoValue
    /\ cls_in = NoValue
    /\ cls_out = ""

-----------------------------------------------------------------------------
(* SpecGeo: generate_geojson called on a list of assessments drawn from a  *)
(* bounded set.                                                            *)

MaxAssessments == 4

\* assessments as a caller may pass them: any asset, reading, score, level
AssessmentInputs ==
    { RiskAssessment(ConfiguredAssets[1],
                     WeatherData(R(10049, 10000), R(12346, 1000),
                                 R(-3456, 1000), R(45125, 1000), R(1, 8)),
                     R(24996, 1000), "low"),
      RiskAssessment(ConfiguredAssets[2], FallbackWeather,
                     R(3, 4), "low"),
      RiskAssessment(DefaultedAsset("Unlisted Warehouse", RInt(40), RInt(-100)),
                     WeatherData(R(7, 3), R(2, 3), R(3, 8), R(-1, 8),
                                 R(99994, 1000)),
                     RInt(100), "high") }

SeqsUpTo(S, n) == UNION { [1..k -> S] : k \in 0..n }

IdleGeo ==
    /\ geo_pc = "idle"
    /\ geo_in = <<>>
    /\ geo_out = NoDocument

InitGeo ==
    /\ geo_pc = "input"
    /\ geo_in \in SeqsUpTo(AssessmentInputs, MaxAssessments)
    /\ geo_out = NoDocument

\* geo_out = calculator.generate_geojson(geo_in)
Generate ==
    /\ geo_pc = "input"
    /\ geo_out' = generate_geojson(geo_in)
    /\ geo_pc' = "generated"
    /\ UNCHANGED geo_in
    /\ UNCHANGED notGeo

-----------------------------------------------------------------------------
(* generate_forecast_animation_data and the forecast provider.             *)

HoursAhead == 72

ForecastPoint(timestamp, fire_index, wind_speed, temperature, humidity, precipitation) ==
    [timestamp |-> timestamp, fire_index |-> fire_index,
     wind_speed |-> wind_speed, temperature |-> temperature,
     humidity |-> humidity, precipitation |-> precipitation]

\* one entry of _generate_sample_forecast_data, hour = 0, 1, ...; the
\* timestamp is kept as the number of hours after base_time
SamplePoint(hour) ==
    LET fire_risk  == R(10 + (hour % 24), 10)
        wind_speed == RInt(5 + (hour % 12) * 2)
        temp       == R(240 + 10 * Abs((hour % 24) - 12), 12)
    IN  ForecastPoint(hour,
                      PyMin(fire_risk, RInt(5)),
                      PyMin(wind_speed, RInt(25)),
                      temp,
                      PyMax(RInt(30), R(160 - hour, 2)),
                      IF hour % 8 = 0 THEN R(1, 10) ELSE RInt(0))

generate_sample_forecast_data(hours) ==
    [k \in 1..hours |-> SamplePoint(k - 1)]

\* the list built from a 2xx response whose timelines.hourly has n
\* intervals, each with "time" and "values"; the timestamp is kept as the
\* number of hours after the first interval
ForecastFromIntervals(n, values) ==
    [k \in 1..n |->
        ForecastPoint(k - 1,
                      Get(values, "fireIndex", RInt(1)),
                      Get(values, "windSpeed", RInt(5)),
                      Get(values, "temperature", RInt(20)),
                      Get(values, "humidity", RInt(50)),
                      Get(values, "precipitationIntensity", RInt(0)))]

\* sample_forecast[::3]
EveryThird(forecast) ==
    [k \in 1..((Len(forecast) + 2) \div 3) |-> forecast[3 * (k - 1) + 1]]

\* the document before the loops
AnimationSkeleton(asset_list) ==
    [type |-> "FeatureCollection",
     features |-> <<>>,
     animation |-> [timestamps |-> <<>>, duration_hours |-> 72,
                    interval_hours |-> 3],
     metadata |-> [generated_at |-> "2025-01-31T20:42:00Z",
                   total_assets |-> Len(asset_list),
                   data_source |-> "Tomorrow.io Forecast API"]]

HasForecast(name) ==
    \E k \in 1..Len(asset_forecasts) : asset_forecasts[k].name = name

\* asset_forecasts[name]
ForecastOf(name) ==
    LET k == CHOOSE j \in 1..Len(asset_forecasts) :
                 asset_forecasts[j].name = name
    IN  asset_forecasts[k].forecast

\* asset_forecasts[asset.name][i * 3] exists (i = 0, 1, ...)
IndexInRange(name, i) == i * 3 + 1 <= Len(ForecastOf(name))

\* the feature of one asset in frame i (i = 0, 1, ...)
FrameFeature(asset, i, timestamp) ==
    LET forecast_point == ForecastOf(asset.name)[i * 3 + 1]
        weather == WeatherData(forecast_point.fire_index,
                               forecast_point.wind_speed,
                               forecast_point.temperature,
                               forecast_point.humidity,
                               forecast_point.precipitation)
        risk_score == calculate_risk_score(weather, asset)
        risk_level == get_risk_level(risk_score)
    IN  [type |-> "Feature",
         geometry |-> [type |-> "Point",
                       coordinates |-> <<asset.lon, asset.lat>>],
         properties |->
            [name |-> asset.name,
             asset_type |-> asset.asset_type,
             insured_value |-> asset.insured_value,
             timestamp |-> timestamp,
             fire_index |-> weather.fire_index,
             wind_speed |-> weather.wind_speed,
             temperature |-> weather.temperature,
             humidity |-> weather.humidity,
             precipitation |-> weather.precipitation,
             risk_score |-> risk_score,
             risk_level |-> risk_level,
             frame_index |-> i]]

\* the assets that have a forecast, in the order of self.assets
RECURSIVE WithForecast(_)
WithForecast(asset_list) ==
    IF asset_list = <<>> THEN <<>>
    ELSE (IF HasForecast(Head(asset_list).name)
          THEN <<Head(asset_list)>> ELSE <<>>) \o WithForecast(Tail(asset_list))

\* frame_features of frame i, when every index is in range
FrameFeatures(i, timestamp) ==
    LET have == WithForecast(assets)
    IN  [k \in 1..Len(have) |-> FrameFeature(have[k], i, timestamp)]

\* frame i can be built without IndexError
FrameInRange(i) ==
    \A k \in 1..Len(assets) :
        HasForecast(assets[k].name) => IndexInRange(assets[k].name, i)

\* features after frames 0 .. n-1
RECURSIVE FeaturesUpTo(_, _)
FeaturesUpTo(n, timestamps) ==
    IF n = 0 THEN <<>>
    ELSE FeaturesUpTo(n - 1, timestamps)
             \o FrameFeatures(n - 1, timestamps[n])

\* 2xx forecast responses: the number of hourly intervals and the "values"
\* object every interval carries
ForecastResponseInputs ==
    LET full == [fireIndex |-> RInt(2), windSpeed |-> RInt(20),
                 temperature |-> RInt(30), humidity |-> RInt(20),
                 precipitationIntensity |-> RInt(0)]
        part == [windSpeed |-> RInt(12)]
    IN  { [n |-> 0, values |-> full],
          [n |-> HoursAhead, values |-> full],
          [n |-> HoursAhead + 1, values |-> full],
          [n |-> HoursAhead, values |-> part] }

IdleAnim ==
    /\ an_pc = "idle"
    /\ an_idx = 0
    /\ asset_forecasts = <<>>
    /\ animation_data = AnimationSkeleton(<<>>)
    /\ an_error = NoError

\* a constructed calculator on which generate_forecast_animation_data is
\* called
InitAnim ==
    /\ pc = "idle"
    /\ env_key = "tio-key"
    /\ api_key = ChooseKey(NoKey, env_key)
    /\ assets = ConfiguredAssets
    /\ idx = 0
    /\ assessments = <<>>
    /\ fetchLog = <<>>
    /\ responses = <<>>
    /\ geojson_data = NoDocument
    /\ file0 = FileAbsent
    /\ file = FileAbsent
    /\ printed = <<>>
    /\ error = NoError
    /\ an_pc = "for"
    /\ an_idx = 1
    /\ asset_forecasts = <<>>
    /\ animation_data = AnimationSkeleton(ConfiguredAssets)
    /\ an_error = NoError

\* fetch_forecast_data returns the list built from a 2xx response
ForecastReturns ==
    /\ an_pc = "for"
    /\ an_idx <= Len(assets)
    /\ \E r \in ForecastResponseInputs :
          asset_forecasts' =
              Append(asset_forecasts,
                     [name |-> assets[an_idx].name,
                      forecast |-> ForecastFromIntervals(r.n, r.values)])
    /\ an_idx' = an_idx + 1
    /\ UNCHANGED <<an_pc, animation_data, an_error>>
    /\ UNCHANGED notAnim

\* an exception inside the try block of fetch_forecast_data: a
\* RequestException is answered with the sample forecast, anything else
\* reaches "except Exception: continue" of the caller
ForecastRaises ==
    /\ an_pc = "for"
    /\ an_idx <= Len(assets)
    /\ \E exc \in RequestExceptions \cup BodyExceptions :
          IF CaughtByFetch(exc)
          THEN asset_forecasts' =
                   Append(asset_forecasts,
                          [name |-> assets[an_idx].name,
                           forecast |->
                               generate_sample_forecast_data(HoursAhead)])
          ELSE UNCHANGED asset_forecasts
    /\ an_idx' = an_idx + 1
    /\ UNCHANGED <<an_pc, animation_data, an_error>>
    /\ UNCHANGED notAnim

\* if asset_forecasts: ... the frames, up to the return or the IndexError
BuildFrames ==
    /\ an_pc = "for"
    /\ an_idx > Len(assets)
    /\ IF asset_forecasts = <<>>
       THEN an_pc' = "returned" /\ UNCHANGED <<animation_data, an_error>>
       ELSE LET sample_forecast == asset_forecasts[1].forecast
                third == EveryThird(sample_forecast)
                timestamps == [k \in 1..Len(third) |-> third[k].timestamp]
                bad == { i \in 0..(Len(timestamps) - 1) : ~FrameInRange(i) }
            IN  IF bad = {}
                THEN /\ animation_data' =
                           [animation_data EXCEPT
                               !.animation.timestamps = timestamps,
                               !.features =
                                   FeaturesUpTo(Len(timestamps), timestamps)]
                     /\ an_pc' = "returned"
                     /\ UNCHANGED an_error
                ELSE LET first == CHOOSE i \in bad : \A j \in bad : i <= j
                     IN  /\ animation_data' =
                               [animation_data EXCEPT
                                   !.animation.timestamps = timestamps,
                                   !.features =
                                       FeaturesUpTo(first, timestamps)]
                         /\ an_error' = "IndexError"
                         /\ an_pc' = "raised"
    /\ UNCHANGED <<an_idx, asset_forecasts>>
    /\ UNCHANGED notAnim

NextAnim == ForecastReturns \/ ForecastRaises \/ BuildFrames

InitAnimation == InitAnim /\ IdleScore /\ IdleGeo

SpecAnim == InitAnimation /\ [][NextAnim]_vars

-----------------------------------------------------------------------------
(* SpecScore: calculate_risk_score and get_risk_level called on inputs     *)
(* drawn from bounded sets.                                                *)

FireIndexInputs     == {RInt(-1), RInt(0), R(5, 2), RInt(40)}
WindSpeedInputs     == {RInt(-5), RInt(0), RInt(5), RInt(30)}
TemperatureInputs   == {RInt(-10), RInt(0), RInt(30), RInt(50)}
HumidityInputs      == {RInt(-20), RInt(0), RInt(20), RInt(80)}
PrecipitationInputs == {RInt(-1), RInt(0), RInt(2), RInt(6)}

FieldInputs(f) ==
    CASE f = "fire_index"    -> FireIndexInputs
      [] f = "wind_speed"    -> WindSpeedInputs
      [] f = "temperature"   -> TemperatureInputs
      [] f = "humidity"      -> HumidityInputs
      [] f = "precipitation" -> PrecipitationInputs

WeatherInputs ==
    { WeatherData(fi, ws, t, h, p) :
        fi \in FireIndexInputs, ws \in WindSpeedInputs,
        t \in TemperatureInputs, h \in HumidityInputs,
        p \in PrecipitationInputs }

AssetInputs ==
    { ConfiguredAssets[k] : k \in DOMAIN ConfiguredAssets }
        \cup { DefaultedAsset("Unlisted Warehouse", RInt(40), RInt(-100)) }

\* assets of every type that differ from AssetInputs in every other field
OtherAssetInputs ==
    { AssetLocation("Other Site", RInt(0), RInt(0), a.asset_type, RInt(1)) :
        a \in AssetInputs }

ScoreInputs ==
    { RInt(0), R(25, 2), R(24999, 1000), RInt(25), R(25001, 1000), RInt(40),
      R(59999, 1000), RInt(60), R(60001, 1000), RInt(100) }

InitScore ==
    /\ IdleMain /\ IdleGeo /\ IdleAnim
    /\ sc_pc = "input"
    /\ sc_weather \in WeatherInputs
    /\ sc_asset \in AssetInputs
    /\ sc_score = NoValue
    /\ sc_field = ""
    /\ sc_weather2 = sc_weather
    /\ sc_score2 = NoValue
    /\ sc_asset2 = sc_asset
    /\ sc_score3 = NoValue
    /\ cls_in = NoValue
    /\ cls_out = ""

\* score = calculator.calculate_risk_score(weather, asset)
Score ==
    /\ sc_pc = "input"
    /\ sc_score' = calculate_risk_score(sc_weather, sc_asset)
    /\ sc_pc' = "scored"
    /\ UNCHANGED <<sc_weather, sc_asset, sc_field, sc_weather2, sc_score2,
                   sc_asset2, sc_score3, cls_in, cls_out>>
    /\ UNCHANGED notScore

\* a second call, with one field of the reading changed
Perturb ==
    /\ sc_pc = "scored"
    /\ \E f \in WeatherFields : \E v \in FieldInputs(f) :
          /\ sc_field' = f
          /\ sc_weather2' = [sc_weather EXCEPT ![f] = v]
          /\ sc_score2' = calculate_risk_score([sc_weather EXCEPT ![f] = v],
                                               sc_asset)
    /\ sc_pc' = "perturbed"
    /\ UNCHANGED <<sc_weather, sc_asset, sc_score, sc_asset2, sc_score3,
                   cls_in, cls_out>>
    /\ UNCHANGED notScore

\* a second call, with the same reading and another asset
Reassess ==
    /\ sc_pc = "scored"
    /\ \E a \in OtherAssetInputs :
          /\ sc_asset2' = a
          /\ sc_score3' = calculate_risk_score(sc_weather, a)
    /\ sc_pc' = "reassessed"
    /\ UNCHANGED <<sc_weather, sc_asset, sc_score, sc_field, sc_weather2,
                   sc_score2, cls_in, cls_out>>
    /\ UNCHANGED notScore

\* level = calculator.get_risk_level(score)
Classify ==
    /\ sc_pc = "scored"
    /\ \E s \in ScoreInputs \cup {sc_score} :
          /\ cls_in' = s
          /\ cls_out' = get_risk_level(s)
    /\ sc_pc' = "classified"
    /\ UNCHANGED <<sc_weather, sc_asset, sc_score, sc_field, sc_weather2,
                   sc_score2, sc_asset2, sc_score3>>
    /\ UNCHANGED notScore

NextScore == Score \/ Perturb \/ Reassess \/ Classify

SpecScore == InitScore /\ [][NextScore]_vars

-----------------------------------------------------------------------------
(* The run of main().                                                      *)

Next ==
    \/ Construct \/ ConstructRaises \/ StartSave \/ IssueFetch
    \/ FetchReturns \/ FetchRaises \/ ReturnAssessments
    \/ Makedirs \/ Open \/ Dump \/ Summary \/ MainExcept

Init == InitMain /\ IdleScore /\ IdleGeo /\ IdleAnim

Spec == Init /\ [][Next]_vars

-----------------------------------------------------------------------------
(* Claims about the scoring engine.                                        *)

InRange(s) == RLeq(RInt(0), s) /\ RLeq(s, RInt(100))

\* C1: for every reading (zero and negative values included) and every
\* asset, recognised type or not, calculate_risk_score returns a value r
\* with 0 <= r <= 100.
C1_ScoreInRange ==
    /\ sc_pc # "input" => InRange(sc_score)
    /\ sc_pc = "perturbed" => InRange(sc_score2)
    /\ sc_pc = "reassessed" => InRange(sc_score3)

\* a reading with a negative field whose raw product exceeds 100 was scored
C1_Witness ==
    /\ sc_pc = "scored"
    /\ sc_weather.precipitation.n < 0
    /\ sc_asset.asset_type = "property"
    /\ RLess(RInt(100), raw_risk_score(sc_weather, sc_asset))
    /\ sc_score = RInt(100)

\* C2: get_risk_level returns "low" exactly when score < 25, "medium"
\* exactly when 25 <= score < 60 and "high" exactly when score >= 60; so 25
\* is "medium", 60 is "high", and every score gets exactly one level.
C2_LevelThresholds ==
    sc_pc = "classified" =>
        /\ cls_out \in {"low", "medium", "high"}
        /\ cls_out = "low" <=> RLess(cls_in, RInt(25))
        /\ cls_out = "medium" <=>
               (RLeq(RInt(25), cls_in) /\ RLess(cls_in, RInt(60)))
        /\ cls_out = "high" <=> RLeq(RInt(60), cls_in)
        /\ cls_in = RInt(25) => cls_out = "medium"
        /\ cls_in = RInt(60) => cls_out = "high"

\* the boundary value 25 was classified
C2_Witness ==
    sc_pc = "classified" /\ cls_in = RInt(25) /\ cls_out = "medium"

NonNegative(w) == \A f \in WeatherFields : w[f].n >= 0

\* C5: for non-negative readings and a fixed asset the score is
\* non-decreasing in fire_index, wind_speed and temperature and
\* non-increasing in humidity and precipitation, the other four held fixed.
C5_Monotone ==
    (sc_pc = "perturbed" /\ NonNegative(sc_weather) /\ NonNegative(sc_weather2))
    =>
    LET lo == RLeq(sc_weather[sc_field], sc_weather2[sc_field])
        hi == RLeq(sc_weather2[sc_field], sc_weather[sc_field])
    IN  IF sc_field \in {"fire_index", "wind_speed", "temperature"}
        THEN /\ lo => RLeq(sc_score, sc_score2)
             /\ hi => RLeq(sc_score2, sc_score)
        ELSE /\ lo => RLeq(sc_score2, sc_score)
             /\ hi => RLeq(sc_score, sc_score2)

\* raising humidity alone strictly lowered the score
C5_Witness ==
    /\ sc_pc = "perturbed"
    /\ NonNegative(sc_weather) /\ NonNegative(sc_weather2)
    /\ sc_field = "humidity"
    /\ RLess(sc_weather.humidity, sc_weather2.humidity)
    /\ RLess(sc_score2, sc_score)

\* C7: the score depends on the asset only through asset_type: two assets
\* of the same type that differ in name, lat, lon and insured_value get the
\* same score for the same reading, whichever call comes first.
C7_OnlyAssetType ==
    (sc_pc = "reassessed" /\ sc_asset2.asset_type = sc_asset.asset_type)
    => sc_score3 = sc_score

\* two such assets were scored, with a score that the asset factor moves
C7_Witness ==
    /\ sc_pc = "reassessed"
    /\ sc_asset2.asset_type = sc_asset.asset_type
    /\ sc_asset2.name # sc_asset.name
    /\ sc_asset2.lat # sc_asset.lat
    /\ sc_asset2.lon # sc_asset.lon
    /\ sc_asset2.insured_value # sc_asset.insured_value
    /\ sc_asset.asset_type = "critical_infrastructure"
    /\ RLess(RInt(0), sc_score) /\ RLess(sc_score, RInt(100))
    /\ sc_score3 = sc_score

NextGeo == Generate

InitGeojson == InitGeo /\ IdleMain /\ IdleScore /\ IdleAnim

SpecGeo == InitGeojson /\ [][NextGeo]_vars

-----------------------------------------------------------------------------
(* Claims about a run of main().                                           *)

Failed(response) == response.kind # "ok"

\* what fetch_weather_data is documented to hand back for a response
ReadingFor(response) ==
    IF Failed(response) THEN FallbackWeather
    ELSE WeatherFromValues(response.values)

\* assess_all_assets has run to its return statement
AssessCompleted == assets # <<>> /\ idx > Len(assets)

\* C3: whenever the fetch for one asset fails (transport failure, non-2xx
\* response, or failure to parse the response body) nothing is raised to
\* the orchestrator: that asset is assessed with the fallback reading and
\* every other asset is still assessed with its own reading.
C3_FetchNeverRaises ==
    /\ \A i \in 1..Len(responses) :
          /\ i <= Len(assessments)
          /\ assessments[i].asset = assets[i]
          /\ assessments[i].weather = ReadingFor(responses[i])
    /\ (pc = "done" /\ assets # <<>>) => Len(assessments) = Len(assets)

\* C6: if the API key is missing or an error escapes from any step of
\* save_risk_data, the run ends having printed a diagnostic and without
\* having created, truncated or written the output file; the file is
\* written only after all assets have been assessed.
C6_NoOutputOnError ==
    /\ (pc = "done" /\ error # NoError) =>
          /\ file = file0
          /\ \E k \in 1..Len(printed) : printed[k].text = "Error:"
    /\ file # file0 => AssessCompleted /\ Len(assessments) = Len(assets)

\* C8: a completed assess_all_assets issues exactly one fetch per asset, in
\* list order, none before the previous asset's assessment is appended; the
\* i-th assessment holds the i-th asset, the reading its fetch returned,
\* the score of that reading and the level of that score; the asset list is
\* unchanged.
C8_SequentialAssessment ==
    /\ fetchLog = [i \in 1..Len(fetchLog) |-> i]
    /\ Len(fetchLog) <= Len(assets)
    /\ Len(fetchLog) <= Len(assessments) + 1
    /\ pc = "fetch" <=> (Len(fetchLog) = Len(assessments) + 1 /\ error = NoError)
    /\ assets \in {<<>>, ConfiguredAssets}
    /\ AssessCompleted =>
          /\ assets = ConfiguredAssets
          /\ Len(fetchLog) = Len(assets)
          /\ Len(assessments) = Len(assets)
          /\ \A i \in 1..Len(assets) :
                /\ assessments[i].asset = assets[i]
                /\ assessments[i].weather = ReadingFor(responses[i])
                /\ assessments[i].risk_score =
                      calculate_risk_score(ReadingFor(responses[i]), assets[i])
                /\ assessments[i].risk_level =
                      get_risk_level(assessments[i].risk_score)

\* a run completed with a fetched reading whose score rounds up to 25 for
\* the first asset and a failed fetch for another
C8_Witness ==
    /\ pc = "done"
    /\ error = NoError
    /\ AssessCompleted
    /\ ~Failed(responses[1])
    /\ assessments[1].risk_score = R(24996, 1000)
    /\ assessments[1].risk_level = "low"
    /\ \E j \in 2..Len(responses) : Failed(responses[j])

\* C9: in every feature of the document, risk_level is the level of that
\* feature's risk_score property (the score rounded to 2 decimal places).
C9_LevelOfDisplayedScore ==
    \A i \in 1..Len(geojson_data.features) :
        get_risk_level(geojson_data.features[i].properties.risk_score)
            = geojson_data.features[i].properties.risk_level

-----------------------------------------------------------------------------
(* Claims about generate_geojson and generate_forecast_animation_data.     *)

RAbs(x) == [n |-> Abs(x.n), d |-> x.d]

\* p is x rounded to 2 decimal places: a multiple of 1/100 at most 1/200
\* away from x
IsRounded2(x, p) ==
    /\ 100 % p.d = 0
    /\ RLeq(RAbs(RSub(p, x)), R(1, 200))

\* C4: for a list of N assessments (N >= 0) generate_geojson returns a
\* FeatureCollection with exactly N features and metadata.total_assets = N;
\* the i-th feature is that of the i-th assessment, its coordinates are
\* [lon, lat] in that order, and its five weather properties are the
\* assessment's weather fields rounded to 2 decimal places.
C4_OneFeaturePerAssessment ==
    geo_pc = "generated" =>
        /\ geo_out.type = "FeatureCollection"
        /\ Len(geo_out.features) = Len(geo_in)
        /\ geo_out.metadata.total_assets = Len(geo_in)
        /\ \A i \in 1..Len(geo_in) :
              LET f == geo_out.features[i]
                  a == geo_in[i]
              IN  /\ f.properties.name = a.asset.name
                  /\ f.properties.asset_type = a.asset.asset_type
                  /\ f.geometry.coordinates = <<a.asset.lon, a.asset.lat>>
                  /\ \A w \in WeatherFields :
                        IsRounded2(a.weather[w], f.properties[w])

\* a document of MaxAssessments features was generated from a list that
\* repeats an assessment and holds readings that rounding changes
C4_Witness ==
    /\ geo_pc = "generated"
    /\ Len(geo_in) = MaxAssessments
    /\ Len(geo_out.features) = MaxAssessments
    /\ \E i, j \in 1..Len(geo_in) : i # j /\ geo_in[i] = geo_in[j]
    /\ \E i \in 1..Len(geo_in) :
          /\ geo_in[i].weather.humidity = R(45125, 1000)
          /\ geo_out.features[i].properties.humidity = R(4512, 100)
          /\ geo_out.features[i].properties.temperature = R(-346, 100)

\* C10: whatever forecast each asset got (from the API, with any number of
\* hourly intervals, or the 72 sample entries), every frame index i taken
\* from the first forecast is a valid position i*3 in every other forecast:
\* the call never indexes past the end of a list, and every frame holds
\* exactly one feature per asset that has a forecast.
C10_FrameIndexInRange ==
    /\ an_error # "IndexError"
    /\ an_pc = "returned" =>
          LET have == WithForecast(assets)
              frames == Len(animation_data.animation.timestamps)
          IN  /\ Len(animation_data.features) = frames * Len(have)
              /\ \A i \in 0..(frames - 1) : \A k \in 1..Len(have) :
                    LET f == animation_data.features[i * Len(have) + k]
                    IN  /\ f.properties.frame_index = i
                        /\ f.properties.name = have[k].name

====
